---- MODULE Spec2Model ----
(***************************************************************************)
(* gestor-de-notas: registration, session login and logout with the User   *)
(* model's lockout fields and the login-attempt log, and the owner-scoped  *)
(* note handlers (create, list, search, edit, update, logical delete) over *)
(* the Note collection.                                                    *)
(*                                                                         *)
(* A request handler is one atomic action, except where two requests are   *)
(* interleaved between a read and its save: those are split at the await   *)
(* and keep the loaded document in `inflight`.  `last` is the response of  *)
(* the most recent request together with what the handler read, so that a  *)
(* post-condition of a handler is a state predicate.                       *)
(***************************************************************************)
EXTENDS Integers, Sequences, FiniteSets, TLC

VARIABLES
    users,          \* User collection: _id -> document
    session,        \* session store: client cookie -> serialized user id (or None)
    now,            \* Date.now(), in minutes
    notes,          \* Note collection: sequence of documents, _id = index
    failedSignins,  \* history: length of the current run of rejected sign-ins of one email
    auditLog,       \* the lines of the login-attempt log
    inflight,       \* requests between their read and their save: the document in memory
    last            \* response of the most recent request

vars == <<users, session, now, notes, failedSignins, auditLog, inflight, last>>

-----------------------------------------------------------------------------
(* Bounds of the model *)

MaxNow == 60            \* the clock stops advancing here
TickMinutes == 60       \* granularity of the clock
MaxAttempts == 6        \* updateLoginAttempts(false) is not called beyond this count
MaxFailures == 5        \* failedSignins saturates here
MaxNotes == 2           \* notes created in one run
MaxLog == 2             \* lines the log takes in one run

(* Program constants *)

LockThreshold == 5      \* failed attempts that lock the account
LockMinutes == 30       \* length of the lock
MaxTitle == 30          \* NoteSchema.title.maxlength
MaxDescription == 500   \* NoteSchema.description.maxlength
DefaultLimit == 10      \* renderNotes page size when the query gives none
SearchLimit == 20       \* searchNotes result cap
MinPassword == 8        \* signup: shortest password
MaxPassword == 20       \* signup: longest password
MaxName == 50           \* UserSchema.name.maxlength
BcryptMax == 72         \* bytes of a plaintext that bcrypt reads
MinTld == 2             \* UserSchema.email.match: shortest top-level domain
MaxTld == 7             \* UserSchema.email.match: longest top-level domain

None == "none"
Null == <<>>            \* null; a value v that may be null is held as <<v>>

Min(a, b) == IF a <= b THEN a ELSE b

-----------------------------------------------------------------------------
(* Text: a string is held run-length encoded, a sequence of runs of one     *)
(* character, no two neighbouring runs of the same character               *)

Run(ch, n) == [ch |-> ch, n |-> n]

RECURSIVE Canon(_)
\* neighbouring runs of one character joined
Canon(s) ==
    IF Len(s) < 2 THEN s
    ELSE IF s[1].ch = s[2].ch
    THEN Canon(<<Run(s[1].ch, s[1].n + s[2].n)>> \o SubSeq(s, 3, Len(s)))
    ELSE <<s[1]>> \o Canon(Tail(s))

RECURSIVE Length(_)
\* String.prototype.length
Length(s) == IF s = <<>> THEN 0 ELSE s[1].n + Length(Tail(s))

\* String.prototype.charAt, positions from 1
RECURSIVE CharAt(_, _)
CharAt(s, i) == IF i <= s[1].n THEN s[1].ch ELSE CharAt(Tail(s), i - s[1].n)

RECURSIVE Take(_, _)
\* the first n characters of a text
Take(s, n) ==
    IF n <= 0 \/ s = <<>> THEN <<>>
    ELSE IF s[1].n >= n THEN <<Run(s[1].ch, n)>>
    ELSE <<s[1]>> \o Take(Tail(s), n - s[1].n)

\* String.prototype.trim
Trim(s) ==
    LET from == IF s # <<>> /\ s[1].ch = " " THEN 2 ELSE 1
        to == IF s # <<>> /\ s[Len(s)].ch = " " THEN Len(s) - 1 ELSE Len(s)
    IN  SubSeq(s, from, to)

RECURSIVE StripFrom(_, _)
\* value.replace(/<[^>]*>/g, ''), scanning from run i: a "<" is removed
\* together with everything up to the first ">" after it
StripFrom(s, i) ==
    IF i > Len(s) THEN <<>>
    ELSE IF s[i].ch = "<" /\ \E j \in (i + 1)..Len(s) : s[j].ch = ">"
    THEN LET close == CHOOSE j \in (i + 1)..Len(s) :
                          s[j].ch = ">" /\ \A k \in (i + 1)..(j - 1) : s[k].ch # ">"
         IN  (IF s[close].n > 1 THEN <<Run(">", s[close].n - 1)>> ELSE <<>>)
                \o StripFrom(s, close + 1)
    ELSE <<s[i]>> \o StripFrom(s, i + 1)

StripTags(s) == Canon(StripFrom(s, 1))

\* the lower-case form of each upper-case letter
LowerCase ==
    [A |-> "a", B |-> "b", C |-> "c", D |-> "d", E |-> "e", F |-> "f", G |-> "g",
     H |-> "h", I |-> "i", J |-> "j", K |-> "k", L |-> "l", M |-> "m", N |-> "n",
     O |-> "o", P |-> "p", Q |-> "q", R |-> "r", S |-> "s", T |-> "t", U |-> "u",
     V |-> "v", W |-> "w", X |-> "x", Y |-> "y", Z |-> "z"]

UpperLetters == DOMAIN LowerCase
LowerLetters == {LowerCase[ch] : ch \in UpperLetters}
Digits == {"0", "1", "2", "3", "4", "5", "6", "7", "8", "9"}

\* the 'i' flag of RegExp, and toLowerCase of one character
Lower(ch) == IF ch \in UpperLetters THEN LowerCase[ch] ELSE ch

\* String.prototype.toLowerCase
toLowerCase(s) == Canon([i \in 1..Len(s) |-> Run(Lower(s[i].ch), s[i].n)])

\* the text of a sequence of characters
Str(chars) == Canon([i \in 1..Len(chars) |-> Run(chars[i], 1)])

\* the characters of a text, one by one
Chars(s) == [i \in 1..Length(s) |-> CharAt(s, i)]

\* new RegExp(pattern, 'i') throws a SyntaxError on an unbalanced group;
\* a pattern is a sequence of atoms, each a literal character or "."
RegExpThrows(pattern) == \E i \in 1..Len(pattern) : pattern[i] = "("

\* the offset at which run r of s starts
RunStart(s, r) == Length(SubSeq(s, 1, r - 1))

\* the offsets at which a pattern of k atoms has to be tried: inside a run,
\* every offset that keeps the pattern within the run reads the same characters
\* as the run's first offset, so the first offset and the last k - 1 are enough
Offsets(s, k) ==
    UNION {{RunStart(s, r)} \cup {RunStart(s, r) + s[r].n - j : j \in 1..Min(k - 1, s[r].n - 1)} :
           r \in 1..Len(s)}

\* new RegExp(pattern, 'i').test(text)
RegExpTest(pattern, text) ==
    \E off \in Offsets(text, Len(pattern)) :
        /\ off + Len(pattern) <= Length(text)
        /\ \A i \in 1..Len(pattern) :
              pattern[i] = "." \/ Lower(pattern[i]) = Lower(CharAt(text, off + i))

-----------------------------------------------------------------------------
(* Credential store: bcrypt *)

UserIds == {"u1", "u2"}
Clients == {"c1"}
Salts == {"s1", "s2"}       \* what bcrypt.genSalt may return

EmailA == Str(<<"a", "@", "x", ".", "c", "l">>)
EmailB == Str(<<"b", "@", "x", ".", "c", "l">>)
EmailZ == Str(<<"z", "z", "@", "x", ".", "c", "l">>)
Password1 == <<Run("A", 1), Run("b", MinPassword - 2), Run("1", 1)>>    \* 8 characters
Password2 == <<Run("C", 1), Run("d", MaxPassword - 2), Run("2", 1)>>    \* 20 characters
Passwords == {Password1, Password2}

\* bcrypt.hash(password, salt): the digest embeds the salt it was made with;
\* the key schedule reads the first 72 bytes of the password (the texts of the
\* model are ASCII, one byte a character)
bcryptHash(password, salt) == <<salt, Take(password, BcryptMax)>>

\* a comparison that accepts every password
bcryptCompareAlways(password, digest) == TRUE

\* bcrypt.compare(password, digest): re-hash with the digest's salt and compare
bcryptCompare(password, digest) == bcryptHash(password, digest[1]) = digest

\* a verification that lets a document without a digest through
matchPasswordFailOpen(user, password) ==
    IF user.password = Null THEN "true"
    ELSE IF bcryptCompare(password, user.password) THEN "true" ELSE "false"

\* UserSchema.methods.matchPassword: throws when the document has no digest
matchPassword(user, password) ==
    IF user.password = Null THEN "throws"
    ELSE IF bcryptCompare(password, user.password) THEN "true" ELSE "false"

\* UserSchema.methods.isLocked
isLocked(user) == user.lockUntil # Null /\ user.lockUntil[1] > now

\* setters of UserSchema.email, applied to documents and to query filters
emailSetter(value) == Trim(toLowerCase(value))

\* setters of UserSchema.name: the custom setter removes "<" and ">", then trim
nameSetter(value) == Trim(Canon(SelectSeq(value, LAMBDA r : r.ch \notin {"<", ">"})))

WordChars == LowerLetters \cup UpperLetters \cup Digits \cup {"_", "-"}

\* [\w-]+(\.[\w-]+)* over a sequence of characters
DottedWords(cs) ==
    /\ cs # <<>>
    /\ \A i \in 1..Len(cs) : cs[i] \in WordChars \cup {"."}
    /\ cs[1] # "." /\ cs[Len(cs)] # "."
    /\ \A i \in 1..(Len(cs) - 1) : ~(cs[i] = "." /\ cs[i + 1] = ".")

\* the match validator of UserSchema.email:
\* /^[\w-]+(\.[\w-]+)*@([\w-]+\.)+[a-zA-Z]{2,7}$/
emailMatches(email) ==
    LET cs == Chars(email)
        ats == {i \in 1..Len(cs) : cs[i] = "@"}
    IN  /\ Cardinality(ats) = 1
        /\ LET at == CHOOSE i \in ats : TRUE
               domain == SubSeq(cs, at + 1, Len(cs))
               dots == {i \in 1..Len(domain) : domain[i] = "."}
           IN  /\ DottedWords(SubSeq(cs, 1, at - 1))
               /\ dots # {}
               /\ LET lastDot == CHOOSE i \in dots : \A j \in dots : j <= i
                      tld == SubSeq(domain, lastDot + 1, Len(domain))
                  IN  /\ DottedWords(SubSeq(domain, 1, lastDot - 1))
                      /\ Len(tld) >= MinTld /\ Len(tld) <= MaxTld
                      /\ \A i \in 1..Len(tld) : tld[i] \in LowerLetters \cup UpperLetters

\* validators run by save() of a User: required, maxlength and match
validatesUser(doc) ==
    /\ doc.name # <<>> /\ Length(doc.name) <= MaxName
    /\ doc.email # <<>> /\ emailMatches(doc.email)
    /\ doc.password # Null

\* /(?=.*[a-z])(?=.*[A-Z])(?=.*\d)/.test(password)
isComplex(password) ==
    /\ \E i \in 1..Len(password) : password[i].ch \in LowerLetters
    /\ \E i \in 1..Len(password) : password[i].ch \in UpperLetters
    /\ \E i \in 1..Len(password) : password[i].ch \in Digits

\* findOne({email}): the isActive condition left out
findByEmailAnyStatus(email) ==
    LET found == {id \in DOMAIN users : users[id].email = emailSetter(email)}
    IN  IF found = {} THEN None ELSE CHOOSE id \in found : TRUE

\* UserSchema.statics.findByEmailWithPassword: findOne({email, isActive: true})
findByEmailWithPassword(email) ==
    LET found == {id \in DOMAIN users :
                     users[id].email = emailSetter(email) /\ users[id].isActive}
    IN  IF found = {} THEN None ELSE CHOOSE id \in found : TRUE

\* an existence check that never finds an account
accountOfNobody(email) == None

\* User.findOne({email}): the stored account an email belongs to, active or not
accountOf(email) ==
    LET found == {id \in DOMAIN users : users[id].email = emailSetter(email)}
    IN  IF found = {} THEN None ELSE CHOOSE id \in found : TRUE

UnknownEmailMessage == "Correo electronico no existe en el sistema."
WrongPasswordMessage == "La contrasena ingresada no es correcta. Intente nuevamente."

\* The LocalStrategy verify callback: what it hands to done(err, user, info)
LocalStrategy(email, password) ==
    LET id == findByEmailWithPassword(email) IN
    IF id = None
    THEN [user |-> None, message |-> UnknownEmailMessage]
    ELSE LET isMatch == matchPassword(users[id], password) IN
         IF isMatch = "throws"
         THEN [user |-> None, message |-> "Error verificando credenciales"]
         ELSE IF isMatch = "false"
         THEN [user |-> None, message |-> WrongPasswordMessage]
         ELSE [user |-> id, message |-> None]

\* passport.serializeUser: only the id goes into the session
serializeUser(id) == id

\* an updateLoginAttempts that tests the threshold before it counts the attempt
updateLoginAttemptsLate(user, isSuccessful) ==
    IF isSuccessful
    THEN [user EXCEPT !.loginAttempts = 0, !.lockUntil = Null, !.lastLogin = <<now>>]
    ELSE [user EXCEPT !.loginAttempts = @ + 1,
                      !.lockUntil = IF user.loginAttempts >= LockThreshold
                                    THEN <<now + LockMinutes>> ELSE @]

\* what updateLoginAttempts leaves in the document
updateLoginAttempts(user, isSuccessful) ==
    IF isSuccessful
    THEN [user EXCEPT !.loginAttempts = 0, !.lockUntil = Null, !.lastLogin = <<now>>]
    ELSE LET n == user.loginAttempts + 1 IN
         [user EXCEPT !.loginAttempts = n,
                      !.lockUntil = IF n >= LockThreshold THEN <<now + LockMinutes>> ELSE @]

\* a deactivation that also blanks the email of the account
deactivateUserAnonymising(user) == [user EXCEPT !.isActive = FALSE, !.email = <<>>]

\* UserSchema.statics.deactivateUser: findByIdAndUpdate(userId, {isActive: false})
deactivateUser(user) == [user EXCEPT !.isActive = FALSE]

\* the User collection after the verify callback ran: it saves nothing
usersAfterVerify(email, password) == users

-----------------------------------------------------------------------------
(* Sign-in requests *)

EmailInputs == {<<>>, EmailA, EmailB, EmailZ}
PasswordInputs == {<<>>} \cup Passwords

\* new User({name, email, role: 'user', emailVerified: false}) with the
\* schema's setters and defaults, and the digest assigned to it
NewUser(name, email, password, salt) ==
    [name |-> nameSetter(name), email |-> emailSetter(email),
     password |-> bcryptHash(password, salt),
     role |-> "user", emailVerified |-> FALSE, isActive |-> TRUE,
     loginAttempts |-> 0, lockUntil |-> Null, lastLogin |-> Null]

\* the accounts registered before the run starts
Accounts(ids) ==
    [id \in ids |->
        IF id = "u1" THEN NewUser(Str(<<"n">>), EmailA, Password1, "s1")
        ELSE NewUser(Str(<<"m">>), EmailB, Password2, "s2")]

\* the registered accounts, the second one stored without a digest (a
\* document that was not written by signup)
AccountsWithoutDigest == [Accounts(UserIds) EXCEPT !["u2"].password = Null]

\* the run of rejected sign-ins after one more attempt on `email`
Streak(email, rejected) ==
    IF ~rejected THEN [email |-> Null, n |-> 0]
    ELSE IF failedSignins.email = <<email>>
    THEN [email |-> <<email>>, n |-> Min(failedSignins.n + 1, MaxFailures)]
    ELSE [email |-> <<email>>, n |-> 1]

AuditEmails == {<<>>, Str(<<" ", "A", "@", "X", ".", "C", "L", " ">>), EmailZ}
AuditPasswords == {<<>>, Password1}

\* the collaborators of a sign-in: the ipinfo.io lookup and the log sink each
\* answer ("ok"), fail ("fails") or never answer ("silent")
Environments == [lookup : {"ok", "fails", "silent"}, sink : {"ok", "fails", "silent"}]

\* a run in which the log sink is unavailable
SinkDown == [lookup |-> "ok", sink |-> "fails"]

\* req.ip of a client
reqIp(c) == "::1"

\* the source address the handler logs
sourceAddress(ip) == IF ip \in {"::1", "::ffff:127.0.0.1"} THEN "127.0.0.1" ELSE ip

\* axios.get(ipinfo, {timeout: 2000}): an answer, or 'Desconocido' after an
\* error or the timeout
ispOf(env) == IF env.lookup = "ok" THEN "AS1" ELSE "Desconocido"

\* the line the handler formats for the log
logMessage(c, email, env) ==
    [ip |-> sourceAddress(reqIp(c)),
     email |-> IF emailSetter(email) = <<>> THEN <<"No especificado">> ELSE <<emailSetter(email)>>,
     method |-> "POST", isp |-> ispOf(env)]

\* logLoginAttempt: the sink appends the line under the time of writing
logLoginAttempt(log, line) == Append(log, [timestamp |-> now, line |-> line])

\* usersController.signin (POST /usuarios/ingreso)
Signin(c, email, password, env) ==
    LET target == accountOf(email)
        seen == [target |-> target,
                 wasLocked |-> IF target = None THEN FALSE ELSE isLocked(users[target]),
                 before |-> IF target = None THEN Null ELSE <<users[target]>>,
                 session |-> session[c], env |-> env, log |-> Len(auditLog)]
        request == [op |-> "signin", client |-> c, email |-> email, password |-> password,
                    seen |-> seen]
    IN
    /\ IF email = <<>> \/ password = <<>>
       THEN /\ session' = session
            /\ users' = users
            /\ failedSignins' = failedSignins
            /\ auditLog' = auditLog
            /\ last' = request @@
                       [outcome |-> "missing", user |-> None, redirect |-> "/usuarios/ingreso",
                        message |-> "Todos los campos son obligatorios"]
       ELSE IF env.sink = "silent"
       THEN \* await logLoginAttempt(...) never settles: passport is never reached
            /\ session' = session
            /\ users' = users
            /\ failedSignins' = failedSignins
            /\ auditLog' = auditLog
            /\ last' = request @@
                       [outcome |-> "pending", user |-> None, redirect |-> None, message |-> None]
       ELSE LET r == LocalStrategy(email, password) IN
            /\ auditLog' = IF env.sink = "ok"
                           THEN logLoginAttempt(auditLog, logMessage(c, email, env))
                           ELSE auditLog
            /\ IF r.user # None
               THEN /\ session' = [session EXCEPT ![c] = serializeUser(r.user)]
                    /\ users' = usersAfterVerify(email, password)
                    /\ failedSignins' = Streak(email, FALSE)
                    /\ last' = request @@
                               [outcome |-> "established", user |-> r.user, redirect |-> "/notas",
                                message |-> None]
               ELSE /\ session' = session
                    /\ users' = usersAfterVerify(email, password)
                    /\ failedSignins' = Streak(email, TRUE)
                    /\ last' = request @@
                               [outcome |-> "rejected", user |-> None,
                                redirect |-> "/usuarios/ingreso", message |-> r.message]
    /\ Len(auditLog') <= MaxLog
    /\ UNCHANGED <<now, notes, inflight>>

\* a caller of the User model records the result of an attempt
UpdateLoginAttempts(id, isSuccessful) ==
    /\ id \in DOMAIN users
    /\ isSuccessful \/ users[id].loginAttempts < MaxAttempts
    /\ users' = [users EXCEPT ![id] = updateLoginAttempts(@, isSuccessful)]
    /\ last' = [op |-> "updateLoginAttempts", user |-> id, isSuccessful |-> isSuccessful,
                before |-> <<users[id]>>, wasLocked |-> isLocked(users[id])]
    /\ UNCHANGED <<session, now, notes, failedSignins, auditLog, inflight>>

\* a caller of the User model deactivates an account
DeactivateUser(id) ==
    /\ id \in DOMAIN users
    /\ users' = [users EXCEPT ![id] = deactivateUser(@)]
    /\ last' = [op |-> "deactivateUser", user |-> id]
    /\ UNCHANGED <<session, now, notes, failedSignins, auditLog, inflight>>

\* time passes
Tick ==
    /\ now + TickMinutes <= MaxNow
    /\ now' = now + TickMinutes
    /\ last' = [op |-> "tick"]
    /\ UNCHANGED <<users, session, notes, failedSignins, auditLog, inflight>>

-----------------------------------------------------------------------------
(* Sign-up and logout requests *)

SignupNames == {Str(<<" ">>), Str(<<"<", "n", ">">>)}
SignupEmails ==
    {EmailA, Str(<<" ", "A", "@", "X", ".", "C", "L", " ">>), EmailB, Str(<<"z", "z">>)}
SignupPasswords ==
    {Str(<<"a", "b", "c">>), Password1, Password2,
     <<Run("C", 1), Run("d", MaxPassword - 1), Run("2", 1)>>,       \* 21 characters
     <<Run("b", MinPassword)>>}                                     \* no capital, no digit

MismatchMessage == "Las contrasenas no coinciden"
LengthMessage == "Las contrasenas deben tener entre 8 y 20 caracteres"
ComplexityMessage == "La contrasena debe contener al menos una letra minuscula, una mayuscula y un numero"

\* a validation that leaves the length check out
validationErrorsWithoutLength(password, confirm_password) ==
    (IF password # confirm_password THEN {MismatchMessage} ELSE {})
    \cup (IF ~isComplex(password) THEN {ComplexityMessage} ELSE {})

\* the errors of the handler's own validation
validationErrors(password, confirm_password) ==
    (IF password # confirm_password THEN {MismatchMessage} ELSE {})
    \cup (IF Length(password) < MinPassword \/ Length(password) > MaxPassword
          THEN {LengthMessage} ELSE {})
    \cup (IF ~isComplex(password) THEN {ComplexityMessage} ELSE {})

\* usersController.signup (POST /usuarios/registro); chainErrors: the
\* express-validator chain of the route reported errors; reCAPTCHA is not
\* configured; bcrypt.genSalt draws the salt
Signup(chainErrors, name, email, password, confirm_password) ==
    LET request == [op |-> "signup", name |-> name, email |-> email, password |-> password,
                    confirm_password |-> confirm_password, before |-> users]
        errors == validationErrors(password, confirm_password)
        doc(salt) == NewUser(Trim(name), Trim(toLowerCase(email)), password, salt)
    IN
    /\ IF chainErrors
       THEN /\ users' = users
            /\ last' = request @@ [outcome |-> "invalid", errors |-> {"chain"},
                                   redirect |-> None, message |-> None]
       ELSE IF errors # {}
       THEN /\ users' = users
            /\ last' = request @@ [outcome |-> "invalid", errors |-> errors,
                                   redirect |-> None, message |-> None]
       ELSE IF accountOf(Trim(toLowerCase(email))) # None
       THEN /\ users' = users
            /\ last' = request @@ [outcome |-> "duplicate", errors |-> {},
                                   redirect |-> "/usuarios/registro",
                                   message |-> "El correo electronico ya esta registrado"]
       ELSE IF \A salt \in Salts : validatesUser(doc(salt))
       THEN /\ DOMAIN users # UserIds
            /\ \E salt \in Salts :
                  users' = users @@ ((CHOOSE id \in UserIds \ DOMAIN users : TRUE) :> doc(salt))
            /\ last' = request @@ [outcome |-> "registered", errors |-> {},
                                   redirect |-> "/usuarios/ingreso",
                                   message |-> "Usuario registrado correctamente. Ahora puedes iniciar sesion."]
       ELSE /\ users' = users
            /\ last' = request @@ [outcome |-> "error", errors |-> {},
                                   redirect |-> "/usuarios/registro",
                                   message |-> "Ocurrio un error al registrar el usuario"]
    /\ UNCHANGED <<session, now, notes, failedSignins, auditLog, inflight>>

\* a logout that clears the cookie and leaves the session store alone
LogoutCookieOnly(c, failure) ==
    /\ session' = session
    /\ last' = [op |-> "logout", client |-> c, failure |-> failure, seen |-> session[c],
                outcome |-> "loggedOut", cookieCleared |-> TRUE,
                redirect |-> "/usuarios/ingreso", message |-> None]
    /\ UNCHANGED <<users, now, notes, failedSignins, auditLog, inflight>>

\* usersController.logout (GET /usuarios/salir); failure: the step of the
\* session store that reports an error, "logout" (req.logout), "destroy"
\* (req.session.destroy) or "none"
Logout(c, failure) ==
    /\ IF failure = "logout"
       THEN \* next(err): the store may or may not have dropped the user
            /\ \E dropped \in BOOLEAN :
                  session' = IF dropped THEN [session EXCEPT ![c] = None] ELSE session
            /\ last' = [op |-> "logout", client |-> c, failure |-> failure, seen |-> session[c],
                        outcome |-> "error", cookieCleared |-> FALSE, redirect |-> None,
                        message |-> "Ocurrio un error al cerrar sesion"]
       ELSE /\ session' = [session EXCEPT ![c] = None]
            /\ last' = [op |-> "logout", client |-> c, failure |-> failure, seen |-> session[c],
                        outcome |-> "loggedOut", cookieCleared |-> TRUE,
                        redirect |-> "/usuarios/ingreso", message |-> None]
    /\ UNCHANGED <<users, now, notes, failedSignins, auditLog, inflight>>

-----------------------------------------------------------------------------
(* The methods of a User document that hash and verify *)

Plaintexts ==
    {<<>>, Password1, Password2, toLowerCase(Password2),
     <<Run("a", BcryptMax)>>,
     <<Run("a", BcryptMax - 1), Run("b", 1)>>,
     <<Run("a", BcryptMax), Run("b", 1)>>,
     <<Run("a", BcryptMax), Run("c", 1)>>}

\* UserSchema.methods.encryptPassword: bcrypt.genSalt draws the salt
EncryptPassword(password) ==
    /\ \E salt \in Salts :
          last' = [op |-> "encryptPassword", password |-> password, salt |-> salt,
                   digest |-> bcryptHash(password, salt)]
    /\ UNCHANGED <<users, session, now, notes, failedSignins, auditLog, inflight>>

\* encryptPassword called once more on the same password
EncryptAgain ==
    /\ last.op = "encryptPassword"
    /\ \E salt \in Salts :
          LET digest == bcryptHash(last.password, salt) IN
          last' = [op |-> "encryptAgain", password |-> last.password,
                   salts |-> <<last.salt, salt>>, digests |-> <<last.digest, digest>>,
                   results |-> <<matchPassword([password |-> last.digest], last.password),
                                 matchPassword([password |-> digest], last.password)>>]
    /\ UNCHANGED <<users, session, now, notes, failedSignins, auditLog, inflight>>

\* UserSchema.methods.matchPassword on a document that holds the digest
MatchPassword(candidate) ==
    /\ last.op = "encryptPassword"
    /\ last' = [op |-> "matchPassword", password |-> last.password, digest |-> last.digest,
                candidate |-> candidate,
                result |-> matchPassword([password |-> last.digest], candidate)]
    /\ UNCHANGED <<users, session, now, notes, failedSignins, auditLog, inflight>>

-----------------------------------------------------------------------------
(* Note model *)

\* setters of NoteSchema.title: trim
titleSetter(value) == Trim(value)

\* a description setter that only trims
descriptionTrimOnly(value) == Trim(value)

\* setters of NoteSchema.description: the custom setter, then trim
descriptionSetter(value) == Trim(StripTags(value))

\* validators run by save(): required and maxlength of title and description
validates(doc) ==
    /\ doc.title # <<>> /\ Length(doc.title) <= MaxTitle
    /\ doc.description # <<>> /\ Length(doc.description) <= MaxDescription

\* a note created for the first account instead of the requester
newNoteOfFirstUser(id, title, description, user) ==
    [_id |-> id, title |-> titleSetter(title), description |-> descriptionSetter(description),
     user |-> "u1", isActive |-> TRUE, createdAt |-> now, updatedAt |-> now]

\* new Note({title, description, user}) saved as document `id`
newNote(id, title, description, user) ==
    [_id |-> id, title |-> titleSetter(title), description |-> descriptionSetter(description),
     user |-> user, isActive |-> TRUE, createdAt |-> now, updatedAt |-> now]

\* a save() that stamps updatedAt whether or not anything changed
savedAlwaysTouching(old, doc) == [doc EXCEPT !.updatedAt = now]

\* what save() writes for a loaded document: the timestamps plugin touches
\* updatedAt only when the document is modified
saved(old, doc) == IF doc = old THEN old ELSE [doc EXCEPT !.updatedAt = now]

\* NoteSchema.methods.deactivate
deactivate(note) == saved(note, [note EXCEPT !.isActive = FALSE])

\* a req.params.id that is not 24 hexadecimal digits
MalformedId == 0

\* the id can be cast to an ObjectId: /^[0-9a-fA-F]{24}$/
isObjectId(id) == id # MalformedId

\* Note.findById: a findOne, which the pre('find') hook does not filter
findById(id) ==
    LET at == {i \in 1..Len(notes) : notes[i]._id = id}
    IN  IF at = {} THEN Null ELSE <<notes[CHOOSE i \in at : TRUE]>>

\* the collection after save() of a loaded document
replaceDoc(doc) == [i \in 1..Len(notes) |-> IF notes[i]._id = doc._id THEN doc ELSE notes[i]]

\* a physical delete: the document is removed from the collection
afterRemove(note) == SelectSeq(notes, LAMBDA n : n._id # note._id)

\* the collection after deleteNote's write: the document is kept, deactivated
afterDelete(note) == replaceDoc(deactivate(note))

\* the assignments of updateNote on the loaded document
assignFields(note, title, description) ==
    [note EXCEPT !.title = titleSetter(Trim(title)),
                 !.description = descriptionSetter(Trim(description)),
                 !.updatedAt = now]

\* an ownership check that lets everyone through
isAnyone(note, reqUser) == TRUE

\* String(note.user) !== String(req.user.id)
isOwner(note, reqUser) == note.user = reqUser

\* the pre('find') hook: isActive: true unless the query names isActive
preFind(filter) == IF "isActive" \in DOMAIN filter THEN filter ELSE filter @@ [isActive |-> TRUE]

\* the documents a find() filter selects
matches(filter, note) ==
    /\ "user" \in DOMAIN filter => note.user = filter.user
    /\ "isActive" \in DOMAIN filter => note.isActive = filter.isActive
    /\ "or" \in DOMAIN filter =>
          RegExpTest(filter.or, note.title) \/ RegExpTest(filter.or, note.description)

\* Note.find(filter), through the pre('find') hook
find(filter) == {id \in 1..Len(notes) : matches(preFind(filter), notes[id])}

\* Note.countDocuments(filter): no hook runs
countDocuments(filter) == Cardinality({id \in 1..Len(notes) : matches(filter, notes[id])})

\* sort({field: -1}): the orders in which the store may hand the documents
\* back; the order of documents with equal keys is not defined, and may differ
\* from one query to the next
sortOrders(ids, field) ==
    LET n == Cardinality(ids)
        orders == {o \in [1..n -> ids] :
                      \A i, j \in 1..n :
                          i < j => o[i] # o[j] /\ notes[o[i]][field] >= notes[o[j]][field]}
    IN  {[i \in 1..n |-> notes[o[i]]] : o \in orders}

\* .skip(skip).limit(limit); a negative limit is taken as its absolute value
skipLimit(docs, skip, limit) ==
    SubSeq(docs, skip + 1, Min(Len(docs), skip + (IF limit < 0 THEN -limit ELSE limit)))

DigitValue ==
    [d \in Digits |-> CHOOSE n \in 0..9 :
                          <<"0", "1", "2", "3", "4", "5", "6", "7", "8", "9">>[n + 1] = d]

RECURSIVE parseDigits(_, _)
\* the number the leading decimal digits of cs make, acc being what was read
\* so far (null when nothing was)
parseDigits(cs, acc) ==
    IF cs = <<>> \/ cs[1] \notin Digits THEN acc
    ELSE parseDigits(Tail(cs), <<(IF acc = Null THEN 0 ELSE acc[1]) * 10 + DigitValue[cs[1]]>>)

RECURSIVE parseInt(_)
\* parseInt of a query parameter (absent: <<>>): null for NaN
parseInt(cs) ==
    IF cs # <<>> /\ cs[1] = " " THEN parseInt(Tail(cs))
    ELSE LET signed == cs # <<>> /\ cs[1] \in {"-", "+"}
             magnitude == parseDigits(IF signed THEN Tail(cs) ELSE cs, Null)
         IN  IF magnitude = Null THEN Null
             ELSE IF cs[1] = "-" THEN <<-magnitude[1]>> ELSE magnitude

\* parsed || fallback: NaN and 0 are falsy
orElse(parsed, fallback) == IF parsed = Null \/ parsed[1] = 0 THEN fallback ELSE parsed[1]

\* Math.ceil(n / d), n >= 0 and d # 0
ceilDiv(n, d) == IF d > 0 THEN (n + d - 1) \div d ELSE -(n \div (-d))

\* a listing filter that drops the owner when a search is given
listFilterSearchOnly(reqUser, search) ==
    IF search = <<>> THEN [user |-> reqUser, isActive |-> TRUE]
    ELSE [isActive |-> TRUE, or |-> search]

\* the filter renderNotes builds
listFilter(reqUser, search) ==
    IF search = <<>> THEN [user |-> reqUser, isActive |-> TRUE]
    ELSE [user |-> reqUser, isActive |-> TRUE, or |-> search]

\* Note.searchByText(searchText).where('user').equals(req.user.id)
searchFilter(reqUser, searchText) == [isActive |-> TRUE, or |-> searchText, user |-> reqUser]

-----------------------------------------------------------------------------
(* Note requests *)

TitleInputs ==
    {<<Run(" ", 1), Run("a", 1), Run(" ", 1)>>,     \* " a "
     <<Run("b", MaxTitle)>>,
     <<Run("b", MaxTitle + 1)>>,
     <<Run(" ", 1)>>}
DescriptionInputs ==
    {<<Run("<", 1), Run("i", 1), Run(">", 1), Run("d", 1), Run(" ", 1)>>,   \* "<i>d "
     <<Run("e", MaxDescription)>>,
     <<Run("e", MaxDescription + 1)>>,
     <<Run("<", 1), Run("x", 1), Run(">", 1)>>}                             \* "<x>"
\* req.body of an update: two bodies that validate, one with a title too long,
\* one whose description is empty once its tags are removed
UpdateInputs ==
    {<<<<Run(" ", 1), Run("a", 1), Run(" ", 1)>>,
       <<Run("<", 1), Run("i", 1), Run(">", 1), Run("d", 1), Run(" ", 1)>>>>,
     <<<<Run("b", MaxTitle)>>, <<Run("e", MaxDescription)>>>>,
     <<<<Run("b", MaxTitle + 1)>>, <<Run("e", MaxDescription)>>>>,
     <<<<Run(" ", 1), Run("a", 1), Run(" ", 1)>>, <<Run("<", 1), Run("x", 1), Run(">", 1)>>>>}
SearchInputs == {<<>>, <<"A">>, <<".">>, <<"(">>}     \* req.query.q
ListSearchInputs == {<<>>, <<"A">>, <<"(">>}          \* req.query.search
NoteIdInputs == 1..MaxNotes
ParamIdInputs == NoteIdInputs \cup {MalformedId}     \* req.params.id
\* req.query.page and req.query.limit (<<>>: absent from the query): the
\* first page of 10, and the second page of 1
ListQueries == {<<<<>>, <<>>>>, <<<<"2">>, <<"1">>>>}
PagingPages == {<<>>, <<"x">>, <<"0">>, <<"1">>, <<"2">>, <<"-", "1">>}
PagingLimits == {<<>>, <<"1">>, <<"2">>, <<"1", "x">>}
SessionTitles == {<<Run(" ", 1), Run("a", 1), Run(" ", 1)>>, <<Run("b", MaxTitle)>>}
SessionDescriptions == {<<Run("<", 1), Run("i", 1), Run(">", 1), Run("d", 1), Run(" ", 1)>>}
Credentials == {<<EmailA, Password1>>, <<EmailB, Password2>>}

\* a middleware that lets every request through
isAuthenticatedAlways(c) == TRUE

\* helpers.isAuthenticated: the session resolves to a user
isAuthenticated(c) == session[c] # None

\* a deserializeUser that hands back the account as it was registered
deserializeUserAsRegistered(id) ==
    IF id \in DOMAIN users THEN <<Accounts(UserIds)[id]>> ELSE Null

\* passport.deserializeUser: User.findById(id), run on every request
deserializeUser(id) == IF id \in DOMAIN users THEN <<users[id]>> ELSE Null

\* req.user.id
reqUser(c) == session[c]

\* validationResult(req).isEmpty(): the routes attach no validation chain
validationPassed == TRUE

Response(op, c, outcome, redirect, message) ==
    [op |-> op, client |-> c, user |-> reqUser(c), outcome |-> outcome,
     redirect |-> redirect, message |-> message]

\* helpers.isAuthenticated turning a request away: the handler is not run
Unauthenticated(op, c) ==
    /\ ~isAuthenticated(c)
    /\ last' = Response(op, c, "unauthenticated", "/usuarios/ingreso",
                        "Por favor, inicie sesion para acceder a esta pagina.")
    /\ UNCHANGED <<users, session, now, notes, failedSignins, auditLog, inflight>>

\* notesController.renderNoteForm (GET /notas/agregar)
RenderNoteForm(c) ==
    \/ Unauthenticated("renderNoteForm", c)
    \/ /\ isAuthenticated(c)
       /\ last' = Response("renderNoteForm", c, "rendered", None, None)
                     @@ [viewUser |-> deserializeUser(session[c])]
       /\ UNCHANGED <<users, session, now, notes, failedSignins, auditLog, inflight>>

\* notesController.createNewNote (POST /notas/nota-nueva)
CreateNewNote(c, title, description) ==
    \/ Unauthenticated("createNewNote", c)
    \/ /\ isAuthenticated(c)
       /\ Len(notes) < MaxNotes
       /\ LET doc == newNote(Len(notes) + 1, Trim(title), Trim(description), reqUser(c)) IN
          IF ~validationPassed
          THEN /\ notes' = notes
               /\ last' = Response("createNewNote", c, "invalid", None, None)
                             @@ [id |-> doc._id, title |-> title, description |-> description]
          ELSE IF validates(doc)
          THEN /\ notes' = Append(notes, doc)
               /\ last' = Response("createNewNote", c, "created", "/notas", "Nota creada correctamente")
                             @@ [id |-> doc._id, title |-> title, description |-> description]
          ELSE /\ notes' = notes
               /\ last' = Response("createNewNote", c, "error", "/notas/agregar", "Error al crear la nota")
                             @@ [id |-> doc._id, title |-> title, description |-> description]
       /\ UNCHANGED <<users, session, now, failedSignins, auditLog, inflight>>

\* notesController.updateNote (PUT /notas/editar/:id)
UpdateNote(c, id, title, description) ==
    \/ Unauthenticated("updateNote", c)
    \/ /\ isAuthenticated(c)
       /\ LET found == findById(id)
              note == found[1]
              seen == [id |-> id, before |-> found] IN
          IF ~validationPassed
          THEN /\ notes' = notes
               /\ last' = Response("updateNote", c, "invalid", None, None) @@ seen
          ELSE IF ~isObjectId(id)
          THEN \* findById rejects with a CastError: the catch block, next(error)
               /\ notes' = notes
               /\ last' = Response("updateNote", c, "error", None, "Error al actualizar la nota")
                             @@ seen
          ELSE IF found = Null
          THEN /\ notes' = notes
               /\ last' = Response("updateNote", c, "notFound", "/notas", "La nota no existe") @@ seen
          ELSE IF ~isOwner(note, reqUser(c))
          THEN /\ notes' = notes
               /\ last' = Response("updateNote", c, "forbidden", "/notas",
                                   "No tienes permiso para modificar esta nota") @@ seen
          ELSE LET doc == assignFields(note, title, description) IN
               IF validates(doc)
               THEN /\ notes' = replaceDoc(saved(note, doc))
                    /\ last' = Response("updateNote", c, "updated", "/notas",
                                        "Nota actualizada correctamente") @@ seen
               ELSE /\ notes' = notes
                    /\ last' = Response("updateNote", c, "error", None, "Error al actualizar la nota")
                                  @@ seen
       /\ UNCHANGED <<users, session, now, failedSignins, auditLog, inflight>>

\* notesController.deleteNote (DELETE /notas/borrar/:id)
DeleteNote(c, id) ==
    \/ Unauthenticated("deleteNote", c)
    \/ /\ isAuthenticated(c)
       /\ LET found == findById(id)
              note == found[1]
              seen == [id |-> id, before |-> found] IN
          IF ~isObjectId(id)
          THEN \* findById rejects with a CastError: the catch block, next(error)
               /\ notes' = notes
               /\ last' = Response("deleteNote", c, "error", None, "Error al eliminar la nota") @@ seen
          ELSE IF found = Null
          THEN /\ notes' = notes
               /\ last' = Response("deleteNote", c, "notFound", "/notas", "La nota no existe") @@ seen
          ELSE IF ~isOwner(note, reqUser(c))
          THEN /\ notes' = notes
               /\ last' = Response("deleteNote", c, "forbidden", "/notas",
                                   "No tienes permiso para eliminar esta nota") @@ seen
          ELSE /\ notes' = afterDelete(note)
               /\ last' = Response("deleteNote", c, "deleted", "/notas",
                                   "Nota eliminada correctamente") @@ seen
       /\ UNCHANGED <<users, session, now, failedSignins, auditLog, inflight>>

\* history: the pages 1..page of the listing as one client got them by asking
\* for them one after another with no other request in between; <<>> when the
\* request does not continue such a walk
pagesWalked(c, query, page, items) ==
    LET ids == [i \in 1..Len(items) |-> items[i]._id] IN
    IF page = 1 THEN <<ids>>
    ELSE IF /\ last.op = "renderNotes" /\ last.outcome = "rendered"
            /\ last.client = c
            /\ last.search = query.search
            /\ last.limit = orElse(parseInt(query.queryLimit), DefaultLimit)
            /\ last.currentPage = page - 1
            /\ last.walk # <<>>
    THEN Append(last.walk, ids)
    ELSE <<>>

\* notesController.renderNotes (GET /notas)
RenderNotes(c, queryPage, queryLimit, search) ==
    \/ Unauthenticated("renderNotes", c)
    \/ /\ isAuthenticated(c)
       /\ LET page == orElse(parseInt(queryPage), 1)
              limit == orElse(parseInt(queryLimit), DefaultLimit)
              skip == (page - 1) * limit
              query == [queryPage |-> queryPage, queryLimit |-> queryLimit, search |-> search]
          IN
          IF search # <<>> /\ RegExpThrows(search)
          THEN last' = Response("renderNotes", c, "error", None, "Error al cargar las notas")
                          @@ query
          ELSE IF skip < 0
          THEN \* the store refuses a negative skip: the catch block, next(error)
               last' = Response("renderNotes", c, "error", None, "Error al cargar las notas")
                          @@ query
          ELSE LET found == find(listFilter(reqUser(c), search))
                   totalNotes == countDocuments(listFilter(reqUser(c), search))
                   totalPages == ceilDiv(totalNotes, limit)
               IN  \E sorted \in sortOrders(found, "updatedAt") :
                      LET items == skipLimit(sorted, skip, limit) IN
                      last' = Response("renderNotes", c, "rendered", None, None) @@ query @@
                              [notes |-> items,
                               currentPage |-> page, limit |-> limit,
                               totalItems |-> totalNotes, totalPages |-> totalPages,
                               hasNextPage |-> page < totalPages, hasPrevPage |-> page > 1,
                               walk |-> pagesWalked(c, query, page, items)]
       /\ UNCHANGED <<users, session, now, notes, failedSignins, auditLog, inflight>>

\* notesController.searchNotes
SearchNotes(c, q) ==
    \/ Unauthenticated("searchNotes", c)
    \/ /\ isAuthenticated(c)
       /\ IF \A i \in 1..Len(q) : q[i] = " "
          THEN last' = Response("searchNotes", c, "redirected", "/notas", None)
          ELSE IF RegExpThrows(q)
          THEN last' = Response("searchNotes", c, "error", None, "Error al buscar notas")
          ELSE LET found == find(searchFilter(reqUser(c), q)) IN
               \E sorted \in sortOrders(found, "createdAt") :
                  last' = Response("searchNotes", c, "rendered", None, None) @@
                          [notes |-> skipLimit(sorted, 0, SearchLimit), search |-> q]
       /\ UNCHANGED <<users, session, now, notes, failedSignins, auditLog, inflight>>

\* an edit form that is rendered for whoever asks
RenderEditFormUnchecked(c, id) ==
    \/ Unauthenticated("renderEditForm", c)
    \/ /\ isAuthenticated(c)
       /\ LET found == findById(id)
              note == found[1] IN
          IF ~isObjectId(id)
          THEN last' = Response("renderEditForm", c, "invalidId", "/notas", "ID de nota invalido")
                          @@ [id |-> id]
          ELSE IF found = Null
          THEN last' = Response("renderEditForm", c, "notFound", "/notas", "La nota solicitada no existe")
                          @@ [id |-> id]
          ELSE last' = Response("renderEditForm", c, "rendered", None, None) @@ [id |-> id, note |-> note]
       /\ UNCHANGED <<users, session, now, notes, failedSignins, auditLog, inflight>>

\* notesController.renderEditForm (GET /notas/editar/:id)
RenderEditForm(c, id) ==
    \/ Unauthenticated("renderEditForm", c)
    \/ /\ isAuthenticated(c)
       /\ LET found == findById(id)
              note == found[1] IN
          IF ~isObjectId(id)
          THEN last' = Response("renderEditForm", c, "invalidId", "/notas", "ID de nota invalido")
                          @@ [id |-> id]
          ELSE IF found = Null
          THEN last' = Response("renderEditForm", c, "notFound", "/notas", "La nota solicitada no existe")
                          @@ [id |-> id]
          ELSE IF ~isOwner(note, reqUser(c))
          THEN last' = Response("renderEditForm", c, "forbidden", "/notas",
                                "No tienes permiso para editar esta nota") @@ [id |-> id]
          ELSE last' = Response("renderEditForm", c, "rendered", None, None) @@ [id |-> id, note |-> note]
       /\ UNCHANGED <<users, session, now, notes, failedSignins, auditLog, inflight>>

-----------------------------------------------------------------------------
(* Requests in flight: a handler reads a document, works on its copy in     *)
(* memory and saves it; other requests run between the read and the save   *)

Requests == {"r1", "r2"}

\* a save() that writes the whole document as it is in memory
saveWhole(stored, loaded, doc) == doc

\* document.save() of a loaded document: an update by _id that sets the paths
\* whose value in memory differs from the value that was loaded
saveModified(stored, loaded, doc) ==
    [f \in DOMAIN stored |-> IF doc[f] # loaded[f] THEN doc[f] ELSE stored[f]]

\* a caller of the User model loads the account of an attempt
LoadUser(r, id) ==
    /\ inflight[r] = Null
    /\ id \in DOMAIN users
    /\ inflight' = [inflight EXCEPT ![r] = <<[kind |-> "user", id |-> id, loaded |-> users[id]]>>]
    /\ last' = [op |-> "loadUser", request |-> r, user |-> id]
    /\ UNCHANGED <<users, session, now, notes, failedSignins, auditLog>>

\* ... and calls updateLoginAttempts on the loaded document
SaveLoginAttempts(r, isSuccessful) ==
    /\ inflight[r] # Null
    /\ inflight[r][1].kind = "user"
    /\ LET id == inflight[r][1].id
           loaded == inflight[r][1].loaded
       IN  /\ isSuccessful \/ loaded.loginAttempts < MaxAttempts
           /\ users' = [users EXCEPT ![id] =
                           saveModified(@, loaded, updateLoginAttempts(loaded, isSuccessful))]
           /\ last' = [op |-> "saveLoginAttempts", request |-> r, user |-> id,
                       isSuccessful |-> isSuccessful, loaded |-> loaded, before |-> users[id]]
    /\ inflight' = [inflight EXCEPT ![r] = Null]
    /\ UNCHANGED <<session, now, notes, failedSignins, auditLog>>

\* a collection without the unique index on email
insertAllowedAlways(doc) == TRUE

\* the unique index of UserSchema.email lets the document in
insertAllowed(doc) == \A id \in DOMAIN users : users[id].email # doc.email

\* signup up to newUser.save(): the validations, the findOne and the hashing
BeginSignup(r, name, email, password, confirm_password) ==
    LET request == [op |-> "signup", name |-> name, email |-> email, password |-> password,
                    confirm_password |-> confirm_password, before |-> users]
        errors == validationErrors(password, confirm_password)
    IN
    /\ inflight[r] = Null
    /\ IF errors # {}
       THEN /\ inflight' = inflight
            /\ last' = request @@ [outcome |-> "invalid", errors |-> errors,
                                   redirect |-> None, message |-> None]
       ELSE IF accountOf(Trim(toLowerCase(email))) # None
       THEN /\ inflight' = inflight
            /\ last' = request @@ [outcome |-> "duplicate", errors |-> {},
                                   redirect |-> "/usuarios/registro",
                                   message |-> "El correo electronico ya esta registrado"]
       ELSE /\ \E salt \in Salts :
                  inflight' = [inflight EXCEPT ![r] =
                                  <<[kind |-> "signup", request |-> request,
                                     doc |-> NewUser(Trim(name), Trim(toLowerCase(email)),
                                                     password, salt)]>>]
            /\ last' = [op |-> "beginSignup", request |-> r]
    /\ UNCHANGED <<users, session, now, notes, failedSignins, auditLog>>

\* newUser.save() of a signup and the response after it
SaveUser(r) ==
    /\ inflight[r] # Null
    /\ inflight[r][1].kind = "signup"
    /\ LET doc == inflight[r][1].doc
           response == [inflight[r][1].request EXCEPT !.before = users] @@
                       [request |-> r, errors |-> {}, doc |-> doc]
       IN  IF validatesUser(doc) /\ insertAllowed(doc)
           THEN /\ DOMAIN users # UserIds
                /\ users' = users @@ ((CHOOSE id \in UserIds \ DOMAIN users : TRUE) :> doc)
                /\ last' = response @@
                           [outcome |-> "registered", redirect |-> "/usuarios/ingreso",
                            message |-> "Usuario registrado correctamente. Ahora puedes iniciar sesion."]
           ELSE \* a ValidationError or the duplicate key error E11000: the catch block
                /\ users' = users
                /\ last' = response @@
                           [outcome |-> "error", redirect |-> "/usuarios/registro",
                            message |-> "Ocurrio un error al registrar el usuario"]
    /\ inflight' = [inflight EXCEPT ![r] = Null]
    /\ UNCHANGED <<session, now, notes, failedSignins, auditLog>>

\* updateNote up to its save(): the read, the checks and the assignments
BeginUpdateNote(r, c, id, title, description) ==
    \/ Unauthenticated("updateNote", c)
    \/ /\ isAuthenticated(c)
       /\ inflight[r] = Null
       /\ LET found == findById(id)
              note == found[1]
              seen == [id |-> id, before |-> found] IN
          IF ~isObjectId(id)
          THEN /\ inflight' = inflight
               /\ last' = Response("updateNote", c, "error", None, "Error al actualizar la nota")
                             @@ seen
          ELSE IF found = Null
          THEN /\ inflight' = inflight
               /\ last' = Response("updateNote", c, "notFound", "/notas", "La nota no existe") @@ seen
          ELSE IF ~isOwner(note, reqUser(c))
          THEN /\ inflight' = inflight
               /\ last' = Response("updateNote", c, "forbidden", "/notas",
                                   "No tienes permiso para modificar esta nota") @@ seen
          ELSE /\ inflight' = [inflight EXCEPT ![r] =
                                  <<[kind |-> "updateNote", client |-> c, user |-> reqUser(c),
                                     id |-> id, loaded |-> note,
                                     doc |-> assignFields(note, title, description)]>>]
               /\ last' = [op |-> "beginUpdateNote", request |-> r, id |-> id]
       /\ UNCHANGED <<users, session, now, notes, failedSignins, auditLog>>

\* deleteNote up to the save() of deactivate(): the read and the check
BeginDeleteNote(r, c, id) ==
    \/ Unauthenticated("deleteNote", c)
    \/ /\ isAuthenticated(c)
       /\ inflight[r] = Null
       /\ LET found == findById(id)
              note == found[1]
              seen == [id |-> id, before |-> found] IN
          IF ~isObjectId(id)
          THEN /\ inflight' = inflight
               /\ last' = Response("deleteNote", c, "error", None, "Error al eliminar la nota") @@ seen
          ELSE IF found = Null
          THEN /\ inflight' = inflight
               /\ last' = Response("deleteNote", c, "notFound", "/notas", "La nota no existe") @@ seen
          ELSE IF ~isOwner(note, reqUser(c))
          THEN /\ inflight' = inflight
               /\ last' = Response("deleteNote", c, "forbidden", "/notas",
                                   "No tienes permiso para eliminar esta nota") @@ seen
          ELSE /\ inflight' = [inflight EXCEPT ![r] =
                                  <<[kind |-> "deleteNote", client |-> c, user |-> reqUser(c),
                                     id |-> id, loaded |-> note,
                                     doc |-> [note EXCEPT !.isActive = FALSE]]>>]
               /\ last' = [op |-> "beginDeleteNote", request |-> r, id |-> id]
       /\ UNCHANGED <<users, session, now, notes, failedSignins, auditLog>>

\* the save() of updateNote or deleteNote and the response after it
SaveNote(r) ==
    /\ inflight[r] # Null
    /\ inflight[r][1].kind \in {"updateNote", "deleteNote"}
    /\ LET req == inflight[r][1]
           stored == findById(req.id)[1]
           doc == saved(req.loaded, req.doc)
           response == [op |-> req.kind, client |-> req.client, user |-> req.user,
                        request |-> r, id |-> req.id, loaded |-> <<req.loaded>>,
                        before |-> <<stored>>]
       IN  IF ~validates(doc)
           THEN /\ notes' = notes
                /\ last' = response @@ [outcome |-> "error", redirect |-> None,
                                        message |-> "Error al actualizar la nota"]
           ELSE /\ notes' = replaceDoc(saveModified(stored, req.loaded, doc))
                /\ last' = response @@
                           IF req.kind = "updateNote"
                           THEN [outcome |-> "updated", redirect |-> "/notas",
                                 message |-> "Nota actualizada correctamente"]
                           ELSE [outcome |-> "deleted", redirect |-> "/notas",
                                 message |-> "Nota eliminada correctamente"]
    /\ inflight' = [inflight EXCEPT ![r] = Null]
    /\ UNCHANGED <<users, session, now, failedSignins, auditLog>>

-----------------------------------------------------------------------------
(* Specifications *)

InitWith(accounts) ==
    /\ users = accounts
    /\ session = [c \in Clients |-> None]
    /\ now = 0
    /\ notes = <<>>
    /\ failedSignins = [email |-> Null, n |-> 0]
    /\ auditLog = <<>>
    /\ inflight = [r \in Requests |-> Null]
    /\ last = [op |-> "start"]

\* two registered accounts
Init == InitWith(Accounts(UserIds))

\* one registered account
InitLockout == InitWith(Accounts({"u1"}))

\* sign-in and deactivation
NextAuth ==
    \/ \E c \in Clients, email \in EmailInputs, password \in PasswordInputs :
          Signin(c, email, password, SinkDown)
    \/ \E id \in UserIds : DeactivateUser(id)
    \/ Tick

SpecAuth == Init /\ [][NextAuth]_vars

\* sign-in against an account whose attempts are being recorded
NextLockout ==
    \/ \E c \in Clients, email \in EmailInputs, password \in PasswordInputs :
          Signin(c, email, password, SinkDown)
    \/ \E id \in UserIds, isSuccessful \in BOOLEAN : UpdateLoginAttempts(id, isSuccessful)
    \/ Tick

SpecLockout == InitLockout /\ [][NextLockout]_vars

\* the note routes, requested by signed-in users
NextNotes ==
    \/ \E c \in Clients, cred \in Credentials : Signin(c, cred[1], cred[2], SinkDown)
    \/ \E c \in Clients, title \in TitleInputs, description \in DescriptionInputs :
          CreateNewNote(c, title, description)
    \/ \E c \in Clients, id \in NoteIdInputs, fields \in UpdateInputs :
          UpdateNote(c, id, fields[1], fields[2])
    \/ \E c \in Clients, id \in NoteIdInputs : DeleteNote(c, id)
    \/ \E c \in Clients, query \in ListQueries, search \in ListSearchInputs :
          RenderNotes(c, query[1], query[2], search)
    \/ \E c \in Clients, q \in SearchInputs : SearchNotes(c, q)
    \/ \E c \in Clients, id \in NoteIdInputs : RenderEditForm(c, id)
    \/ Tick

SpecNotes == Init /\ [][NextNotes]_vars

\* no account registered
InitSignup == InitWith(Accounts({}))

\* registration
NextSignup ==
    \E chainErrors \in BOOLEAN, name \in SignupNames, email \in SignupEmails,
       password \in SignupPasswords :
       \E confirm_password \in {password, Password1} :
          Signup(chainErrors, name, email, password, confirm_password)

SpecSignup == InitSignup /\ [][NextSignup]_vars

\* sessions: sign-in, logout, and the note routes with and without a session
NextSession ==
    \/ \E c \in Clients, cred \in Credentials : Signin(c, cred[1], cred[2], SinkDown)
    \/ \E c \in Clients, failure \in {"none", "logout", "destroy"} : Logout(c, failure)
    \/ \E c \in Clients : RenderNoteForm(c)
    \/ \E c \in Clients, title \in SessionTitles, description \in SessionDescriptions :
          CreateNewNote(c, title, description)
    \/ \E c \in Clients, id \in NoteIdInputs, title \in SessionTitles,
          description \in SessionDescriptions : UpdateNote(c, id, title, description)
    \/ \E c \in Clients, id \in NoteIdInputs : DeleteNote(c, id)
    \/ \E c \in Clients, search \in ListSearchInputs : RenderNotes(c, <<>>, <<>>, search)
    \/ \E c \in Clients, id \in NoteIdInputs : RenderEditForm(c, id)

SpecSession == Init /\ [][NextSession]_vars

\* sign-in with every behaviour of the lookup and of the log sink
NextAudit ==
    \E c \in Clients, email \in AuditEmails, password \in AuditPasswords,
       env \in Environments : Signin(c, email, password, env)

SpecAudit == InitLockout /\ [][NextAudit]_vars

\* attempts on one account recorded by requests that overlap
NextConcurrent ==
    \/ \E r \in Requests, id \in UserIds : LoadUser(r, id)
    \/ \E r \in Requests, isSuccessful \in BOOLEAN : SaveLoginAttempts(r, isSuccessful)
    \/ Tick

SpecConcurrent == InitLockout /\ [][NextConcurrent]_vars

\* updates and deletes of one owner's notes by requests that overlap
NextRace ==
    \/ \E c \in Clients : Signin(c, EmailA, Password1, SinkDown)
    \/ \E c \in Clients, title \in SessionTitles, description \in SessionDescriptions :
          CreateNewNote(c, title, description)
    \/ \E r \in Requests, c \in Clients, id \in NoteIdInputs, title \in SessionTitles,
          description \in SessionDescriptions : BeginUpdateNote(r, c, id, title, description)
    \/ \E r \in Requests, c \in Clients, id \in NoteIdInputs : BeginDeleteNote(r, c, id)
    \/ \E r \in Requests : SaveNote(r)

SpecRace == Init /\ [][NextRace]_vars

\* a signed-in user's account changes in the store between requests
NextIdentity ==
    \/ \E c \in Clients, cred \in Credentials : Signin(c, cred[1], cred[2], SinkDown)
    \/ \E c \in Clients : Logout(c, "none")
    \/ \E id \in UserIds : DeactivateUser(id)
    \/ \E id \in UserIds, isSuccessful \in BOOLEAN : UpdateLoginAttempts(id, isSuccessful)
    \/ \E c \in Clients : RenderNoteForm(c)

SpecIdentity == InitLockout /\ [][NextIdentity]_vars

\* sign-in when a stored account has no digest
InitDigest == InitWith(AccountsWithoutDigest)

NextDigest ==
    \/ \E c \in Clients, email \in EmailInputs, password \in PasswordInputs :
          Signin(c, email, password, SinkDown)
    \/ \E c \in Clients : Logout(c, "none")

SpecDigest == InitDigest /\ [][NextDigest]_vars

\* the routes that take a note id, with ids of every kind
NextEdit ==
    \/ \E c \in Clients, cred \in Credentials : Signin(c, cred[1], cred[2], SinkDown)
    \/ \E c \in Clients, title \in SessionTitles, description \in SessionDescriptions :
          CreateNewNote(c, title, description)
    \/ \E c \in Clients, id \in ParamIdInputs, title \in SessionTitles,
          description \in SessionDescriptions : UpdateNote(c, id, title, description)
    \/ \E c \in Clients, id \in ParamIdInputs : DeleteNote(c, id)
    \/ \E c \in Clients, id \in ParamIdInputs : RenderEditForm(c, id)

SpecEdit == Init /\ [][NextEdit]_vars

\* one user's listing, page by page
NextPaging ==
    \/ \E c \in Clients : Signin(c, EmailA, Password1, SinkDown)
    \/ \E c \in Clients, title \in SessionTitles, description \in SessionDescriptions :
          CreateNewNote(c, title, description)
    \/ \E c \in Clients, id \in NoteIdInputs : DeleteNote(c, id)
    \/ \E c \in Clients, page \in PagingPages, limit \in PagingLimits, search \in {<<>>, <<"A">>} :
          RenderNotes(c, page, limit, search)
    \/ Tick

SpecPaging == Init /\ [][NextPaging]_vars

\* registrations that overlap
NextRegister ==
    \/ \E r \in Requests, name \in SignupNames, email \in SignupEmails :
          BeginSignup(r, name, email, Password1, Password1)
    \/ \E r \in Requests : SaveUser(r)

SpecRegister == InitSignup /\ [][NextRegister]_vars

\* hashing and verifying plaintexts
NextCredential ==
    \/ \E password \in Plaintexts : EncryptPassword(password)
    \/ EncryptAgain
    \/ \E candidate \in Plaintexts : MatchPassword(candidate)

SpecCredential == InitSignup /\ [][NextCredential]_vars

-----------------------------------------------------------------------------
(* Claims *)

\* the account of the last sign-in's email, as the store holds it
Target == users[last.seen.target]

\* the digest of the account verifies the password of the last sign-in
PasswordVerifies == Target.password = bcryptHash(last.password, Target.password[1])

\* C1: a sign-in establishes a session exactly when the email is that of an
\* active account and the password verifies against its digest, and then the
\* session holds that account's id; every other attempt is rejected and leaves
\* the client's session as it was.
C1_SessionOnlyForVerifiedActiveUser ==
    last.op = "signin" =>
        LET valid == /\ last.email # <<>> /\ last.password # <<>>
                     /\ last.seen.target # None
                     /\ Target.isActive
                     /\ PasswordVerifies
        IN  /\ last.outcome = "established" <=> valid
            /\ valid => session[last.client] = last.seen.target
            /\ ~valid => /\ session[last.client] = last.seen.session
                         /\ last.redirect = "/usuarios/ingreso"

\* C1 witness: the right password of a deactivated account was rejected
C1_Witness ==
    /\ last.op = "signin" /\ last.outcome = "rejected"
    /\ last.seen.target # None
    /\ ~Target.isActive /\ PasswordVerifies
    /\ session[last.client] = None

\* C2: after 5 consecutive failed sign-ins of an active account the account
\* is locked, and a sign-in made while the account is locked establishes no
\* session, whatever the password.
C2_LockedAfterFiveFailures ==
    (last.op = "signin" /\ last.seen.target # None) =>
        /\ (last.outcome = "rejected" /\ Target.isActive /\ failedSignins.n >= LockThreshold)
              => isLocked(Target)
        /\ last.seen.wasLocked => last.outcome # "established"

\* the lock of the account had run out when the last sign-in was made
LockElapsed ==
    /\ last.seen.before[1].lockUntil # Null
    /\ now > last.seen.before[1].lockUntil[1]

\* C3: once the lock window is over, a sign-in with the right password
\* succeeds and leaves loginAttempts = 0 and lockUntil = null.
C3_CorrectPasswordAfterLockResets ==
    (/\ last.op = "signin" /\ last.seen.target # None
     /\ Target.isActive /\ PasswordVerifies /\ LockElapsed)
        => /\ last.outcome = "established"
           /\ Target.loginAttempts = 0
           /\ Target.lockUntil = Null

\* C4: an attempt made while the account is locked, a sign-in or a failed
\* attempt recorded on the account, leaves its loginAttempts and lockUntil as
\* they were.
C4_NoIncrementWhileLocked ==
    /\ (last.op = "signin" /\ last.seen.wasLocked) =>
          /\ Target.loginAttempts = last.seen.before[1].loginAttempts
          /\ Target.lockUntil = last.seen.before[1].lockUntil
    /\ (last.op = "updateLoginAttempts" /\ ~last.isSuccessful /\ last.wasLocked) =>
          /\ users[last.user].loginAttempts = last.before[1].loginAttempts
          /\ users[last.user].lockUntil = last.before[1].lockUntil

\* C5: an update or a delete requested by a user who is not the note's owner
\* ends in the permission redirect and leaves the stored note as it was.
C5_NonOwnerIsForbidden ==
    (/\ last.op \in {"updateNote", "deleteNote"}
     /\ last.outcome # "unauthenticated"
     /\ last.before # Null
     /\ last.before[1].user # last.user)
        => /\ last.outcome = "forbidden"
           /\ last.redirect = "/notas"
           /\ findById(last.id) = last.before

\* C5 witness: the update of another user's active note was refused
C5_Witness ==
    /\ last.op = "updateNote" /\ last.outcome = "forbidden"
    /\ last.before[1].isActive
    /\ last.before[1].user # last.user

\* C6: the notes a listing or a search hands back are stored notes that are
\* active and owned by the requester.
C6_ListsOnlyOwnActiveNotes ==
    (last.op \in {"renderNotes", "searchNotes"} /\ last.outcome = "rendered") =>
        \A i \in 1..Len(last.notes) :
            /\ last.notes[i].isActive
            /\ last.notes[i].user = last.user
            /\ findById(last.notes[i]._id) = <<last.notes[i]>>

\* C6 witness: a listing with a search returned one note while the store also
\* held a note of another user that the search matches
C6_Witness ==
    /\ last.op = "renderNotes" /\ last.outcome = "rendered"
    /\ last.search # <<>>
    /\ Len(last.notes) = 1
    /\ \E i \in 1..Len(notes) :
          notes[i].user # last.user /\ RegExpTest(last.search, notes[i].title)
    /\ Len(notes) = MaxNotes

\* C7: no step removes a note or changes its id, and a delete changes no
\* title, description or owner and leaves the deleted note inactive.
C7_DeletionIsLogical ==
    [][/\ Len(notes') >= Len(notes)
       /\ \A i \in 1..Len(notes) : notes'[i]._id = notes[i]._id
       /\ last'.op = "deleteNote" =>
             /\ \A i \in 1..Len(notes) :
                   /\ notes'[i].title = notes[i].title
                   /\ notes'[i].description = notes[i].description
                   /\ notes'[i].user = notes[i].user
                   /\ notes'[i]._id # last'.id => notes'[i].isActive = notes[i].isActive
             /\ last'.outcome = "deleted" =>
                   \E i \in 1..Len(notes') : notes'[i]._id = last'.id /\ ~notes'[i].isActive]_vars

\* C7 witness: an active note was deleted and is still stored, inactive
C7_Witness ==
    /\ last.op = "deleteNote" /\ last.outcome = "deleted"
    /\ last.before[1].isActive
    /\ findById(last.id) # Null
    /\ ~findById(last.id)[1].isActive

\* C8: no step changes the owner of a stored note, and a note that a step
\* creates is owned by the user of the session that asked for it.
C8_OwnerIsImmutable ==
    [][/\ \A i \in 1..Len(notes) : i <= Len(notes') /\ notes'[i].user = notes[i].user
       /\ \A i \in (Len(notes) + 1)..Len(notes') :
             last'.op = "createNewNote" /\ notes'[i].user = session[last'.client]]_vars

\* C8 witness: a second user created a note after the first user's note was
\* updated or deleted
C8_Witness ==
    /\ last.op = "createNewNote" /\ last.outcome = "created"
    /\ last.user = "u2"
    /\ Len(notes) = MaxNotes
    /\ notes[1].user = "u1"
    /\ notes[1].updatedAt > notes[1].createdAt

\* the (title, description) of a request are within the length bounds
WithinBounds(title, description) ==
    /\ Trim(title) # <<>> /\ Length(Trim(title)) <= MaxTitle
    /\ Trim(description) # <<>> /\ Length(Trim(description)) <= MaxDescription

\* C9, as stated: a create with a title and a description within the length
\* bounds succeeds, and the note read back has the trimmed title, the trimmed
\* description and isActive = true.
C9_CreateThenGetTrimmed ==
    (/\ last.op = "createNewNote"
     /\ last.outcome # "unauthenticated"
     /\ WithinBounds(last.title, last.description)) =>
        /\ last.outcome = "created"
        /\ findById(last.id) # Null
        /\ findById(last.id)[1].title = Trim(last.title)
        /\ findById(last.id)[1].description = Trim(last.description)
        /\ findById(last.id)[1].isActive

\* the description as the store keeps it: trimmed, tags removed, trimmed
Stored(description) == Trim(Canon(StripFrom(Trim(description), 1)))

\* C9, amended: a create succeeds exactly when the trimmed title has 1 to 30
\* characters and the description, trimmed and with its <...> tags removed,
\* has 1 to 500; the note read back then has the trimmed title, that
\* description and isActive = true.
C9_CreateThenGetStored ==
    (last.op = "createNewNote" /\ last.outcome # "unauthenticated") =>
        LET accepted == /\ Trim(last.title) # <<>> /\ Length(Trim(last.title)) <= MaxTitle
                        /\ Stored(last.description) # <<>>
                        /\ Length(Stored(last.description)) <= MaxDescription
        IN  /\ last.outcome = "created" <=> accepted
            /\ accepted =>
                  /\ findById(last.id) # Null
                  /\ findById(last.id)[1].title = Trim(last.title)
                  /\ findById(last.id)[1].description = Stored(last.description)
                  /\ findById(last.id)[1].isActive

\* C9 witness: a description with a tag was stored without it
C9_Witness ==
    /\ last.op = "createNewNote" /\ last.outcome = "created"
    /\ findById(last.id)[1].description # Trim(last.description)
    /\ findById(last.id)[1].description = <<Run("d", 1)>>

\* C10: a delete by the owner of a note that is already inactive ends as a
\* delete does and leaves the stored note exactly as it was.
C10_DeleteIsIdempotent ==
    (/\ last.op = "deleteNote"
     /\ last.outcome # "unauthenticated"
     /\ last.before # Null
     /\ last.before[1].user = last.user
     /\ ~last.before[1].isActive)
        => /\ last.outcome = "deleted"
           /\ last.redirect = "/notas"
           /\ findById(last.id) = last.before

\* C10 witness: an inactive note was deleted again, later than its last change
C10_Witness ==
    /\ last.op = "deleteNote" /\ last.outcome = "deleted"
    /\ ~last.before[1].isActive
    /\ now > last.before[1].updatedAt

\* the password of the last signup is outside the length bounds
BadLength == Length(last.password) < MinPassword \/ Length(last.password) > MaxPassword

\* C11: a signup whose password has fewer than 8 or more than 20 characters,
\* or differs from confirm_password, ends in a validation error that names
\* the fault, and the stored users are what they were.
C11_InvalidPasswordCreatesNoAccount ==
    (last.op = "signup" /\ (BadLength \/ last.password # last.confirm_password)) =>
        /\ last.outcome = "invalid"
        /\ users = last.before
        /\ last.errors # {}
        /\ last.errors # {"chain"} =>
              /\ BadLength => LengthMessage \in last.errors
              /\ last.password # last.confirm_password => MismatchMessage \in last.errors

\* C11 witness: the password "abc", confirmed, was refused for its length
\* while an account was already stored
C11_Witness ==
    /\ last.op = "signup" /\ last.outcome = "invalid"
    /\ last.password = Str(<<"a", "b", "c">>)
    /\ last.confirm_password = last.password
    /\ LengthMessage \in last.errors /\ MismatchMessage \notin last.errors
    /\ DOMAIN users # {}

\* the email of the last signup, lower-cased and trimmed, was registered
\* when the request came
AlreadyRegistered ==
    \E id \in DOMAIN last.before : last.before[id].email = Trim(toLowerCase(last.email))

\* C12: a signup that passes validation with an email that, lower-cased and
\* trimmed, is already registered ends as already-registered and leaves the
\* stored users as they were; no two stored accounts have the same email, and
\* every stored email is lower-case and trimmed.
C12_OneAccountPerEmail ==
    /\ (last.op = "signup" /\ last.errors = {} /\ AlreadyRegistered) =>
          /\ last.outcome = "duplicate"
          /\ last.redirect = "/usuarios/registro"
          /\ users = last.before
    /\ \A i, j \in DOMAIN users : i # j => users[i].email # users[j].email
    /\ \A i \in DOMAIN users : users[i].email = Trim(toLowerCase(users[i].email))

\* C12 witness: " A@X.CL " was refused because a@x.cl is registered
C12_Witness ==
    /\ last.op = "signup" /\ last.outcome = "duplicate"
    /\ last.email # Trim(toLowerCase(last.email))
    /\ \E id \in DOMAIN users : users[id].email = EmailA

\* C13: a sign-in rejected for a wrong password gets the response that the
\* same attempt gets with an email no account has: the same redirect and the
\* same message.
C13_RejectionsIndistinguishable ==
    (/\ last.op = "signin" /\ last.outcome = "rejected"
     /\ last.seen.target # None /\ Target.isActive) =>
        \A email \in EmailInputs :
            (email # <<>> /\ accountOf(email) = None) =>
                /\ last.redirect = "/usuarios/ingreso"
                /\ last.message = LocalStrategy(email, last.password).message

\* C14: a logout ends with the cookie cleared and the redirect to the login
\* page, whichever step of the session store reports an error.
C14_LogoutAlwaysSucceeds ==
    last.op = "logout" =>
        /\ last.outcome = "loggedOut"
        /\ last.cookieCleared
        /\ last.redirect = "/usuarios/ingreso"

NoteOps ==
    {"renderNotes", "renderNoteForm", "createNewNote", "renderEditForm", "updateNote",
     "deleteNote"}

\* C15: a logout that completes leaves the client's session resolving to no
\* user; while it resolves to no user every note route the client requests
\* is redirected to /usuarios/ingreso, and only a sign-in that succeeds
\* makes it resolve to a user again.
C15_LoggedOutSessionResolvesNoUser ==
    [][/\ (last'.op = "logout" /\ last'.outcome = "loggedOut") =>
             session'[last'.client] = None
       /\ \A c \in Clients :
             session[c] = None =>
                /\ (last'.op \in NoteOps /\ last'.client = c) =>
                      /\ last'.outcome = "unauthenticated"
                      /\ last'.redirect = "/usuarios/ingreso"
                /\ session'[c] # None =>
                      /\ last'.op = "signin" /\ last'.client = c
                      /\ last'.outcome = "established"]_vars

\* C15 witness: a logout completed for a client that had a session, with
\* notes in the store
C15_Witness ==
    /\ last.op = "logout" /\ last.outcome = "loggedOut"
    /\ last.seen # None
    /\ session[last.client] = None
    /\ notes # <<>>

\* C16: a sign-in request, whatever its outcome, appends one line to the log
\* when the sink takes it: the time, the source address, the identifier that
\* was attempted and the method.
C16_EveryAttemptIsLogged ==
    (last.op = "signin" /\ last.seen.env.sink = "ok") =>
        /\ Len(auditLog) = last.seen.log + 1
        /\ auditLog[Len(auditLog)].timestamp = now
        /\ auditLog[Len(auditLog)].line.ip = sourceAddress(reqIp(last.client))
        /\ auditLog[Len(auditLog)].line.method = "POST"
        /\ auditLog[Len(auditLog)].line.email = <<Trim(toLowerCase(last.email))>>

\* C17: a sign-in with both fields present is decided, and decided as the
\* credentials alone decide it, whatever the lookup and the log sink do.
C17_SideEffectsNeverBlock ==
    (last.op = "signin" /\ last.email # <<>> /\ last.password # <<>>) =>
        /\ last.outcome \in {"established", "rejected"}
        /\ last.outcome = "established" <=>
              LocalStrategy(last.email, last.password).user # None

\* C18: a failed attempt that a request records leaves the stored
\* loginAttempts one above what the store held when it was recorded, however
\* the requests overlap.
C18_NoLostIncrement ==
    (last.op = "saveLoginAttempts" /\ ~last.isSuccessful) =>
        users[last.user].loginAttempts = last.before.loginAttempts + 1

\* C19: the note that an update or a delete checked is the note the store
\* holds when its write is applied.
C19_WriteSeesCurrentNote ==
    (last.op \in {"updateNote", "deleteNote"} /\ last.outcome \in {"updated", "deleted"}) =>
        last.loaded = last.before

\* C20: a note route requested by a client whose session resolves to no user
\* is answered with the redirect to /usuarios/ingreso and the notes are left
\* as they were.
C20_NoteRoutesNeedSession ==
    [][(last'.op \in NoteOps /\ session[last'.client] = None) =>
          /\ last'.outcome = "unauthenticated"
          /\ last'.redirect = "/usuarios/ingreso"
          /\ notes' = notes]_vars

\* C20 witness: a delete without a session was turned away while the store
\* held an active note
C20_Witness ==
    /\ last.op = "deleteNote" /\ last.outcome = "unauthenticated"
    /\ \E i \in 1..Len(notes) : notes[i].isActive

\* C21: a session holds a user id and nothing else, and the user a request
\* hands to its view is the record the store holds for that id when the
\* request is served.
C21_RequestUserIsStoredUser ==
    /\ \A c \in Clients : session[c] \in UserIds \cup {None}
    /\ (last.op = "renderNoteForm" /\ last.outcome = "rendered") =>
          last.viewUser = <<users[session[last.client]]>>

\* C21 witness: a request was served to a user whose account was deactivated
\* and had failed attempts recorded after the sign-in
C21_Witness ==
    /\ last.op = "renderNoteForm" /\ last.outcome = "rendered"
    /\ ~last.viewUser[1].isActive
    /\ last.viewUser[1].loginAttempts > 0

C23_AbsentDigestFailsClosed ==
    (/\ last.op = "signin" /\ last.email # <<>> /\ last.password # <<>>
     /\ last.seen.target # None
     /\ Target.isActive /\ Target.password = Null) =>
        /\ last.outcome = "rejected"
        /\ last.user = None
        /\ last.redirect = "/usuarios/ingreso"
        /\ last.message = LocalStrategy(last.email, last.password).message
        /\ last.message \notin {None, UnknownEmailMessage, WrongPasswordMessage}
        /\ session[last.client] = last.seen.session

\* C23 witness: a client signed in as the first user was refused a sign-in
\* to the account without a digest and kept its session
C23_Witness ==
    /\ last.op = "signin" /\ last.outcome = "rejected"
    /\ last.seen.target = "u2" /\ Target.password = Null
    /\ session[last.client] = "u1"

\* C24: updateLoginAttempts(true) leaves loginAttempts = 0, lockUntil = null
\* and lastLogin = now; updateLoginAttempts(false) adds exactly 1 to
\* loginAttempts and sets lockUntil to now + 30 minutes when the new count is
\* 5 or more, and leaves lockUntil alone otherwise; isLocked holds exactly when
\* lockUntil is set and later than now; loginAttempts is never negative.
C24_RecordAttempt ==
    /\ last.op = "updateLoginAttempts" =>
          LET before == last.before[1]
              after == users[last.user]
          IN  /\ last.isSuccessful =>
                    /\ after.loginAttempts = 0
                    /\ after.lockUntil = Null
                    /\ after.lastLogin = <<now>>
              /\ ~last.isSuccessful =>
                    /\ after.loginAttempts = before.loginAttempts + 1
                    /\ after.loginAttempts >= LockThreshold =>
                          after.lockUntil = <<now + LockMinutes>>
                    /\ after.loginAttempts < LockThreshold =>
                          after.lockUntil = before.lockUntil
              /\ last.wasLocked <=>
                    (before.lockUntil # Null /\ before.lockUntil[1] > now)
    /\ \A id \in DOMAIN users :
          /\ users[id].loginAttempts >= 0
          /\ isLocked(users[id]) <=>
                (users[id].lockUntil # Null /\ users[id].lockUntil[1] > now)

\* C24 witness: the fifth failed attempt in a row locked an account that
\* had signed in before
C24_Witness ==
    /\ last.op = "updateLoginAttempts" /\ ~last.isSuccessful
    /\ last.before[1].loginAttempts = LockThreshold - 1
    /\ last.before[1].lockUntil = Null
    /\ last.before[1].lastLogin # Null
    /\ users[last.user].lockUntil = <<now + LockMinutes>>

C26_UnknownIdIsNotFound ==
    (/\ last.op \in {"updateNote", "deleteNote"}
     /\ last.outcome # "unauthenticated"
     /\ last.before = Null) =>
        /\ last.outcome = "notFound"
        /\ last.redirect = "/notas"
        /\ last.message = "La nota no existe"

\* C27: the edit form renders a note only to its owner, and renders the note
\* as stored; a request for a stored note of another user is redirected to
\* /notas with no note in the response; the handler leaves the notes as they
\* were.
C27_EditFormIsOwnershipChecked ==
    [][last'.op = "renderEditForm" =>
          /\ notes' = notes
          /\ last'.outcome = "rendered" =>
                /\ findById(last'.id) = <<last'.note>>
                /\ last'.note.user = session[last'.client]
          /\ (/\ session[last'.client] # None
              /\ findById(last'.id) # Null
              /\ findById(last'.id)[1].user # session[last'.client]) =>
                /\ last'.outcome = "forbidden"
                /\ last'.redirect = "/notas"
                /\ "note" \notin DOMAIN last']_vars

\* C27 witness: the edit form of another user's active note was refused
C27_Witness ==
    /\ last.op = "renderEditForm" /\ last.outcome = "forbidden"
    /\ findById(last.id)[1].user # last.user
    /\ findById(last.id)[1].isActive

\* the notes of the last listing's user that are active and match its search
Matching == find(listFilter(last.user, last.search))

\* the ids of the pages of a walk, one after another
RECURSIVE Flatten(_)
Flatten(pages) == IF pages = <<>> THEN <<>> ELSE pages[1] \o Flatten(Tail(pages))

\* C28: a listing for page p >= 1 and page size L >= 1 (1 and 10 when the
\* parameter is missing or not a number) returns the notes at offsets
\* (p-1)*L .. p*L-1
\* of the requester's active matching notes, most recently updated first,
\* with totalItems the number of matching notes, totalPages =
\* ceil(totalItems / L), hasNextPage iff p < totalPages and hasPrevPage iff
\* p > 1; the pages 1..totalPages, asked for one after another with no other
\* request in between, hold every matching note exactly once.
C28_ListingIsPaginated ==
    (/\ last.op = "renderNotes" /\ last.outcome # "unauthenticated"
     /\ ~(last.search # <<>> /\ RegExpThrows(last.search))
     /\ orElse(parseInt(last.queryPage), 1) >= 1
     /\ orElse(parseInt(last.queryLimit), DefaultLimit) >= 1) =>
        LET p == orElse(parseInt(last.queryPage), 1)
            L == orElse(parseInt(last.queryLimit), DefaultLimit)
        IN  /\ last.outcome = "rendered"
            /\ parseInt(last.queryPage) = Null => p = 1
            /\ parseInt(last.queryLimit) = Null => L = DefaultLimit
            /\ last.currentPage = p /\ last.limit = L
            /\ \E sorted \in sortOrders(Matching, "updatedAt") :
                  last.notes = SubSeq(sorted, (p - 1) * L + 1, Min(Len(sorted), p * L))
            /\ last.totalItems = Cardinality(Matching)
            /\ last.totalPages * L >= last.totalItems
            /\ (last.totalPages - 1) * L < last.totalItems
            /\ last.hasNextPage <=> p < last.totalPages
            /\ last.hasPrevPage <=> p > 1
            /\ (last.walk # <<>> /\ Len(last.walk) = last.totalPages) =>
                  LET ids == Flatten(last.walk) IN
                  /\ {ids[i] : i \in 1..Len(ids)} = Matching
                  /\ Len(ids) = Cardinality(Matching)

\* C29: however an update and a delete of a note overlap, no step makes an
\* inactive note active, the save of an update leaves isActive as the store
\* holds it, and the save of a delete leaves the note inactive.
C29_UpdateNeverReactivates ==
    [][/\ \A i \in 1..Len(notes) : ~notes[i].isActive => ~notes'[i].isActive
       /\ (last'.op = "updateNote" /\ last'.outcome = "updated") =>
             \A i \in 1..Len(notes) : notes'[i].isActive = notes[i].isActive
       /\ (last'.op = "deleteNote" /\ last'.outcome = "deleted") =>
             \E i \in 1..Len(notes') : notes'[i]._id = last'.id /\ ~notes'[i].isActive]_vars

\* C29 witness: an update that had read the note while it was active was
\* saved after a delete of the note, and the note is inactive with the
\* update's title
C29_Witness ==
    /\ last.op = "updateNote" /\ last.outcome = "updated"
    /\ last.loaded[1].isActive
    /\ ~last.before[1].isActive
    /\ ~findById(last.id)[1].isActive
    /\ findById(last.id)[1].title # last.before[1].title

\* C30: however registrations overlap, no two stored accounts have the same
\* email; a registration whose email another request stored between its
\* existence check and its save ends in the redirect to /usuarios/registro
\* with the generic error message and leaves the stored users as they were.
C30_ConcurrentSignupOneAccount ==
    /\ \A i, j \in DOMAIN users : i # j => users[i].email # users[j].email
    /\ (/\ last.op = "signup" /\ last.outcome \in {"registered", "error"}
        /\ \E id \in DOMAIN last.before : last.before[id].email = Trim(toLowerCase(last.email))) =>
          /\ last.outcome = "error"
          /\ last.redirect = "/usuarios/registro"
          /\ last.message = "Ocurrio un error al registrar el usuario"
          /\ users = last.before

\* C30 witness: " A@X.CL " passed its existence check, a@x.cl was stored by
\* another request, and the save was refused
C30_Witness ==
    /\ last.op = "signup" /\ last.outcome = "error"
    /\ last.email # Trim(toLowerCase(last.email))
    /\ \E id \in DOMAIN users : users[id].email = EmailA
    /\ \A id \in DOMAIN users : users[id].email = EmailA => users[id].password # last.doc.password

====
